---------------------------- MODULE Spec2Model ----------------------------
(***************************************************************************)
(* A model of the HTTP routing and dispatch layer of filemanager           *)
(* (src/http.go): serveHTTP, staticHandler, apiHandler, splitURL,          *)
(* renderFile, sharePage, matchURL and errorToHTTP.                        *)
(*                                                                         *)
(* Strings are sequences of one-character strings, so that prefix tests,   *)
(* trimming, lower-casing and splitting are computed character by          *)
(* character as the Go code computes them.                                 *)
(***************************************************************************)
EXTENDS Integers, Sequences, FiniteSets, TLC

VARIABLES
    baseURL,    \* c.BaseURL, fixed at construction
    staticGen,  \* c.StaticGen != nil, fixed at construction
    db,         \* c.db: the share-record store, hash -> shareLink or NoRecord
    now,        \* the wall clock read by time.Now()
    pc,         \* per request flow: the position of its handler
    req,        \* per request flow: the *http.Request as received
    url,        \* per request flow: r.URL.Path, rewritten along the way
    ctx,        \* per request flow: RequestContext (Router, File) and the loaded shareLink
    calls,      \* per request flow: the collaborators invoked so far, in order
    resp,       \* per request flow: response headers, body and returned (code, err)
    call        \* one application of a pure function (splitURL, errorToHTTP, matchURL)

vars == <<baseURL, staticGen, db, now, pc, req, url, ctx, calls, resp, call>>

---------------------------------------------------------------------------
(* Bounds of the model. *)

\* the clock runs from 0 to MaxTime
MaxTime == 2
\* pure functions are applied to every string of at most MaxLen characters
MaxLen == 4

---------------------------------------------------------------------------
(* net/http status codes used by the code. *)

StatusOK == 200
StatusBadRequest == 400
StatusForbidden == 403
StatusNotFound == 404
StatusConflict == 409
StatusGone == 410
StatusInternalServerError == 500
StatusNotImplemented == 501

---------------------------------------------------------------------------
(* Strings. *)

Sl == <<"/">>
Empty == <<>>

wApi == <<"a","p","i">>
wAPI == <<"A","P","I">>
wAuth == <<"a","u","t","h">>
wGet == <<"g","e","t">>
wGET == <<"G","E","T">>
wRenew == <<"r","e","n","e","w">>
wSettings == <<"s","e","t","t","i","n","g","s">>
wTheme == <<"t","h","e","m","e">>
wNoslash == <<"n","o","s","l","a","s","h">>
wResource == <<"r","e","s","o","u","r","c","e">>
wDownload == <<"d","o","w","n","l","o","a","d">>
wChecksum == <<"c","h","e","c","k","s","u","m">>
wCommand == <<"c","o","m","m","a","n","d">>
wSearch == <<"s","e","a","r","c","h">>
wUsers == <<"u","s","e","r","s">>
wShare == <<"s","h","a","r","e">>
wStatic == <<"s","t","a","t","i","c">>
wSTATIC == <<"S","T","A","T","I","C">>
wManifest == <<"m","a","n","i","f","e","s","t",".","j","s","o","n">>
wSwJs == <<"s","w",".","j","s">>
wPreview == <<"p","r","e","v","i","e","w">>
wBogus == <<"b","o","g","u","s">>
wFm == <<"f","m">>
wX == <<"x">>

\* strings.ToLower, on the letters the model's strings use
LowerChar(ch) ==
    CASE ch = "A" -> "a"
      [] ch = "C" -> "c"
      [] ch = "E" -> "e"
      [] ch = "G" -> "g"
      [] ch = "I" -> "i"
      [] ch = "P" -> "p"
      [] ch = "S" -> "s"
      [] ch = "T" -> "t"
      [] OTHER -> ch

ToLower(s) == [i \in 1..Len(s) |-> LowerChar(s[i])]

\* strings.HasPrefix
HasPrefix(s, prefix) ==
    /\ Len(prefix) <= Len(s)
    /\ SubSeq(s, 1, Len(prefix)) = prefix

\* strings.TrimPrefix
TrimPrefix(s, prefix) ==
    IF HasPrefix(s, prefix) THEN SubSeq(s, Len(prefix) + 1, Len(s)) ELSE s

\* strings.Index(s, "/"): the 0-based index of the first separator, or -1
IndexSlash(s) ==
    IF \E i \in 1..Len(s) : s[i] = "/"
    THEN (CHOOSE i \in 1..Len(s) : s[i] = "/" /\ \A j \in 1..(i-1) : s[j] # "/") - 1
    ELSE -1

---------------------------------------------------------------------------
(* Path Matcher: matchURL and splitURL. *)

matchURL(first, second) == HasPrefix(ToLower(first), ToLower(second))

\* a slip that drops the separator from the rest
splitURLNoSep(path) ==
    IF path = Empty THEN <<Empty, Empty>>
    ELSE LET t == TrimPrefix(path, Sl)
             i == IndexSlash(t)
         IN  IF i = -1 THEN <<Empty, t>>
             ELSE <<SubSeq(t, 1, i), SubSeq(t, i + 2, Len(t))>>

\* splitURL returns <<head, rest>>; Go's path[0:i] is SubSeq(path, 1, i) and
\* path[i:] is SubSeq(path, i+1, Len(path))
splitURL(path) ==
    IF path = Empty THEN <<Empty, Empty>>
    ELSE LET t == TrimPrefix(path, Sl)
             i == IndexSlash(t)
         IN  IF i = -1 THEN <<Empty, t>>
             ELSE <<SubSeq(t, 1, i), SubSeq(t, i + 1, Len(t))>>

---------------------------------------------------------------------------
(* Error Mapper. An error is named by its errno; "nil" is no error. *)

ErrKinds == {"nil", "EACCES", "EPERM", "ENOENT", "EEXIST", "ENOTEMPTY", "EIO"}

IsPermission(err) == err \in {"EACCES", "EPERM"}
IsNotExist(err) == err = "ENOENT"
IsExist(err) == err \in {"EEXIST", "ENOTEMPTY"}

\* a slip that reads the gone flag the wrong way round
errorToHTTPGoneSwapped(err, gone) ==
    CASE err = "nil" -> StatusOK
      [] err # "nil" /\ IsPermission(err) -> StatusForbidden
      [] err # "nil" /\ ~IsPermission(err) /\ IsNotExist(err) ->
            IF gone THEN StatusNotFound ELSE StatusGone
      [] err # "nil" /\ ~IsPermission(err) /\ ~IsNotExist(err) /\ IsExist(err) ->
            StatusConflict
      [] OTHER -> StatusInternalServerError

\* the switch of errorToHTTP: the first case that matches decides
errorToHTTP(err, gone) ==
    CASE err = "nil" -> StatusOK
      [] err # "nil" /\ IsPermission(err) -> StatusForbidden
      [] err # "nil" /\ ~IsPermission(err) /\ IsNotExist(err) ->
            IF ~gone THEN StatusNotFound ELSE StatusGone
      [] err # "nil" /\ ~IsPermission(err) /\ ~IsNotExist(err) /\ IsExist(err) ->
            StatusConflict
      [] OTHER -> StatusInternalServerError

---------------------------------------------------------------------------
(* Configuration, requests and the share-record store. *)

Procs == {1, 2}

\* the base paths a deployment is configured with
BaseURLs == {Empty, Sl \o wFm}

\* c.StaticGen.SettingsPath()
SettingsPath == Sl \o <<"c","o","n","f">>
\* the path a generator's Hook may rewrite r.URL.Path to
HookPath == Sl \o <<"g","e","n">>

AuthGetPath == Sl \o wAuth \o Sl \o wGet
AuthRenewPath == Sl \o wAuth \o Sl \o wRenew

h1 == <<"h","1">>
h2 == <<"h","2">>
h3 == <<"h","3">>
Hashes == {h1, h2}

NoRecord == [Hash |-> Empty, Path |-> Empty, Expires |-> FALSE, ExpireDate |-> -1]
ShareTarget == Sl \o <<"f">>

\* the records a store may hold for hash h
RecordsOf(h) ==
    { [Hash |-> h, Path |-> ShareTarget, Expires |-> e, ExpireDate |-> d] :
        e \in BOOLEAN, d \in 0..MaxTime }

\* paths below the base path
ApiPaths ==
    { Sl \o wApi,
      Sl \o wApi \o AuthGetPath,
      Sl \o wApi \o AuthRenewPath,
      Sl \o wApi \o Sl \o wAuth \o Sl \o wGET,
      Sl \o wAPI \o AuthGetPath,
      Sl \o wAPI \o Sl \o wResource \o Sl \o wX,
      Sl \o wApi \o wX,
      Sl \o wApi \o Sl \o wSettings,
      Sl \o wApi \o Sl \o wSettings \o Sl,
      Sl \o wApi \o Sl \o wResource \o Sl \o wX,
      Sl \o wApi \o Sl \o wResource \o Sl \o wSettings,
      Sl \o wApi \o Sl \o wDownload \o Sl \o wX,
      Sl \o wApi \o Sl \o wDownload \o Sl \o wSettings,
      Sl \o wApi \o Sl \o wChecksum \o Sl \o wX,
      Sl \o wApi \o Sl \o wCommand \o Sl,
      Sl \o wApi \o Sl \o wSearch \o Sl,
      Sl \o wApi \o Sl \o wUsers \o Sl,
      Sl \o wApi \o Sl \o wShare \o Sl \o wX,
      Sl \o wApi \o Sl \o wBogus \o Sl \o wX }

StaticPaths ==
    { Sl \o wStatic \o Sl \o wX,
      Sl \o wSTATIC \o Sl \o wX,
      Sl \o wStatic \o Sl \o wManifest,
      Sl \o wSTATIC \o Sl \o wManifest }

SharePaths ==
    { Sl \o wShare \o Sl \o h1,
      Sl \o wShare \o Sl \o h2,
      Sl \o wShare \o Sl \o h3 }

OtherPaths ==
    { Empty,
      Sl \o wSwJs,
      Sl \o wPreview \o Sl \o wX,
      Sl \o wShare,
      Sl \o wX }

Prefixed(S) == S \cup { Sl \o wFm \o q : q \in S }

Request(path, method, dl) == [path |-> path, method |-> method, dl |-> dl]

\* share requests: the dl query parameter absent (""), "0" or "1"
ShareRequests ==
    { Request(q, "GET", dl) : q \in Prefixed(SharePaths), dl \in {"", "0", "1"} }

Requests ==
    { Request(q, "GET", "") : q \in Prefixed(ApiPaths \cup StaticPaths \cup OtherPaths) }
    \cup { Request(q, "POST", "") : q \in Prefixed(StaticPaths) }
    \cup ShareRequests

NoRequest == Request(Empty, "", "")
NoFile == [Path |-> Empty, Name |-> Empty]
NoContext == [Router |-> Empty, File |-> NoFile, s |-> NoRecord, t |-> -1]
NoResponse ==
    [state |-> "pending", code |-> -1, err |-> "nil", headers |-> {}, body |-> <<>>]
NoCall ==
    [fn |-> "none", path |-> Empty, prefix |-> Empty, err |-> "nil", gone |-> FALSE,
     done |-> FALSE, out |-> <<>>]

\* one invocation of a collaborator: its name, its argument and what it returned
Event(fn, arg, ret) == [fn |-> fn, arg |-> arg, ret |-> ret]

\* a handler returning (code, err)
Returned(r, code, err) == [r EXCEPT !.state = "returned", !.code = code, !.err = err]

\* what an external handler may return
HandlerResults ==
    { [code |-> 0, err |-> "nil"],
      [code |-> StatusInternalServerError, err |-> "EIO"] }

---------------------------------------------------------------------------
(* Renderer. *)

\* template.Must(Parse) panics ("parseErr"); Execute fails before writing
\* ("execErr") or after writing a part ("execErrPartial"); or all is written
RenderOutcomes == {"ok", "parseErr", "execErr", "execErrPartial"}

ContentType(contentType) == <<"Content-Type", <<contentType, "; charset=utf-8">>>>

renderFile(r, file, contentType, outcome) ==
    IF outcome = "parseErr" THEN [r EXCEPT !.state = "panic"]
    ELSE LET h == [r EXCEPT !.headers = @ \cup {ContentType(contentType)}]
         IN  CASE outcome = "execErr" ->
                    Returned(h, StatusInternalServerError, "execErr")
               [] outcome = "execErrPartial" ->
                    Returned([h EXCEPT !.body = @ \o <<file, "...">>],
                             StatusInternalServerError, "execErr")
               [] OTHER ->
                    Returned([h EXCEPT !.body = @ \o <<file>>], 0, "nil")

RenderEvent(file, contentType, outcome) ==
    Event("renderFile", <<file, contentType>>, outcome)

---------------------------------------------------------------------------
(* Construction, the clock and the arrival of requests. *)

TypeDefaults ==
    /\ pc = [p \in Procs |-> "idle"]
    /\ req = [p \in Procs |-> NoRequest]
    /\ url = [p \in Procs |-> Empty]
    /\ ctx = [p \in Procs |-> NoContext]
    /\ calls = [p \in Procs |-> <<>>]
    /\ resp = [p \in Procs |-> NoResponse]

\* the stores a run may start with: any record under h1, a record under h2 that
\* expires once the clock has passed 1, nothing under h3
InitialStores ==
    { [h \in Hashes |->
          IF h = h1 THEN r
          ELSE [Hash |-> h, Path |-> ShareTarget, Expires |-> TRUE, ExpireDate |-> 1]] :
      r \in RecordsOf(h1) }

Init ==
    /\ baseURL \in BaseURLs
    /\ staticGen \in BOOLEAN
    /\ db \in InitialStores
    /\ now = 0
    /\ TypeDefaults
    /\ call = NoCall

\* time passes
Tick ==
    /\ now < MaxTime
    /\ now' = now + 1
    /\ UNCHANGED <<baseURL, staticGen, db, pc, req, url, ctx, calls, resp, call>>

\* the hosting layer hands a request of R to serveHTTP, with a fresh RequestContext
Receive(p, R) ==
    /\ pc[p] = "idle"
    /\ \E r \in R :
          /\ req' = [req EXCEPT ![p] = r]
          /\ url' = [url EXCEPT ![p] = r.path]
    /\ pc' = [pc EXCEPT ![p] = "serve"]
    /\ ctx' = [ctx EXCEPT ![p] = NoContext]
    /\ calls' = [calls EXCEPT ![p] = <<>>]
    /\ resp' = [resp EXCEPT ![p] = NoResponse]
    /\ UNCHANGED <<baseURL, staticGen, db, now, call>>

\* the request is over: its context is discarded
Finish(p) ==
    /\ pc[p] = "done"
    /\ pc' = [pc EXCEPT ![p] = "idle"]
    /\ req' = [req EXCEPT ![p] = NoRequest]
    /\ url' = [url EXCEPT ![p] = Empty]
    /\ ctx' = [ctx EXCEPT ![p] = NoContext]
    /\ calls' = [calls EXCEPT ![p] = <<>>]
    /\ resp' = [resp EXCEPT ![p] = NoResponse]
    /\ UNCHANGED <<baseURL, staticGen, db, now, call>>

\* a handler returns: response r, after invoking the collaborators evs
Return(p, r, evs) ==
    /\ resp' = [resp EXCEPT ![p] = r]
    /\ calls' = [calls EXCEPT ![p] = @ \o evs]
    /\ pc' = [pc EXCEPT ![p] = "done"]

\* a handler goes on at position next, after invoking the collaborators evs
Goto(p, next, evs) ==
    /\ calls' = [calls EXCEPT ![p] = @ \o evs]
    /\ pc' = [pc EXCEPT ![p] = next]
    /\ resp' = resp

---------------------------------------------------------------------------
(* Top-Level Router: serveHTTP and staticHandler. *)

\* a slip in the comparison: a trimmed path is never longer than the path
BaseMismatchStrict(path, base) ==
    Len(TrimPrefix(path, base)) > Len(path) /\ base # Empty

\* the request does not belong to this instance
BaseMismatch(path, base) ==
    Len(TrimPrefix(path, base)) >= Len(path) /\ base # Empty

\* a slip that hands a preview path to the generator without asking whether
\* one is configured
TopBranchPreviewAlways(q, gen) ==
    IF q = Sl \o wSwJs THEN "sw"
    ELSE IF matchURL(q, Sl \o wStatic) THEN "static"
    ELSE IF matchURL(q, Sl \o wApi) THEN "api"
    ELSE IF HasPrefix(q, Sl \o wPreview) THEN "preview"
    ELSE IF HasPrefix(q, Sl \o wShare \o Sl) THEN "share"
    ELSE "index"

\* the branch serveHTTP takes for a path below the base path, in the code's order
TopBranch(q, gen) ==
    IF q = Sl \o wSwJs THEN "sw"
    ELSE IF matchURL(q, Sl \o wStatic) THEN "static"
    ELSE IF matchURL(q, Sl \o wApi) THEN "api"
    ELSE IF HasPrefix(q, Sl \o wPreview) /\ gen THEN "preview"
    ELSE IF HasPrefix(q, Sl \o wShare \o Sl) THEN "share"
    ELSE "index"

Stripped(p) == TrimPrefix(req[p].path, baseURL)

Serving(p, branch) ==
    /\ pc[p] = "serve"
    /\ ~BaseMismatch(req[p].path, baseURL)
    /\ TopBranch(Stripped(p), staticGen) = branch

ServeNotFound(p) ==
    /\ pc[p] = "serve"
    /\ BaseMismatch(req[p].path, baseURL)
    /\ Return(p, Returned(resp[p], StatusNotFound, "nil"), <<>>)
    /\ UNCHANGED <<baseURL, staticGen, db, now, req, url, ctx, call>>

ServeServiceWorker(p) ==
    /\ Serving(p, "sw")
    /\ url' = [url EXCEPT ![p] = Stripped(p)]
    /\ \E o \in RenderOutcomes :
          Return(p, renderFile(resp[p], "sw.js", "application/javascript", o),
                 <<RenderEvent("sw.js", "application/javascript", o)>>)
    /\ UNCHANGED <<baseURL, staticGen, db, now, req, ctx, call>>

ManifestPath == Sl \o wStatic \o Sl \o wManifest

staticHandler(p) ==
    IF url'[p] # ManifestPath
    THEN Return(p, Returned([resp[p] EXCEPT !.body = @ \o <<"FileServer">>], 0, "nil"),
                <<Event("staticHandler", url'[p], ""), Event("FileServer", url'[p], "")>>)
    ELSE \E o \in RenderOutcomes :
          Return(p, renderFile(resp[p], "static/manifest.json", "application/json", o),
                 <<Event("staticHandler", url'[p], ""),
                   RenderEvent("static/manifest.json", "application/json", o)>>)

\* a slip that lets every method through to the static handler
MethodAllowedAny(method) == TRUE

\* if r.Method != http.MethodGet { return http.StatusNotImplemented, nil }
MethodAllowed(method) == method = "GET"

ServeStatic(p) ==
    /\ Serving(p, "static")
    /\ url' = [url EXCEPT ![p] = Stripped(p)]
    /\ IF ~MethodAllowed(req[p].method)
       THEN Return(p, Returned(resp[p], StatusNotImplemented, "nil"), <<>>)
       ELSE staticHandler(p)
    /\ UNCHANGED <<baseURL, staticGen, db, now, req, ctx, call>>

ServeApi(p) ==
    /\ Serving(p, "api")
    /\ url' = [url EXCEPT ![p] = TrimPrefix(Stripped(p), Sl \o wApi)]
    /\ Goto(p, "api", <<Event("apiHandler", url'[p], "")>>)
    /\ UNCHANGED <<baseURL, staticGen, db, now, req, ctx, call>>

ServePreview(p) ==
    /\ Serving(p, "preview")
    /\ url' = [url EXCEPT ![p] = TrimPrefix(Stripped(p), Sl \o wPreview)]
    /\ \E hr \in HandlerResults :
          Return(p, Returned(resp[p], hr.code, hr.err),
                 <<Event("Preview", url'[p], hr)>>)
    /\ UNCHANGED <<baseURL, staticGen, db, now, req, ctx, call>>

ServeShare(p) ==
    /\ Serving(p, "share")
    /\ url' = [url EXCEPT ![p] = TrimPrefix(Stripped(p), Sl \o wShare \o Sl)]
    /\ Goto(p, "share", <<Event("sharePage", url'[p], "")>>)
    /\ UNCHANGED <<baseURL, staticGen, db, now, req, ctx, call>>

HardeningHeaders ==
    { <<"x-frame-options", <<"SAMEORIGIN">>>>,
      <<"x-content-type", <<"nosniff">>>>,
      <<"x-xss-protection", <<"1; mode=block">>>> }

ServeIndex(p) ==
    /\ Serving(p, "index")
    /\ url' = [url EXCEPT ![p] = Stripped(p)]
    /\ \E o \in RenderOutcomes :
          Return(p, renderFile([resp[p] EXCEPT !.headers = @ \cup HardeningHeaders],
                               "index.html", "text/html", o),
                 <<RenderEvent("index.html", "text/html", o)>>)
    /\ UNCHANGED <<baseURL, staticGen, db, now, req, ctx, call>>

---------------------------------------------------------------------------
(* API Dispatcher: apiHandler and checksumHandler. *)

Bool(b) == IF b THEN "true" ELSE "false"

\* a slip that lets a request through whatever validateAuth said
RejectsNever(valid) == FALSE

\* if !valid { return http.StatusForbidden, nil }
Rejects(valid) == ~valid

\* a slip that asks about the path as it was before the split
AllowedArgPreSplit(path, rest) == path

\* c.User.Allowed is asked about r.URL.Path, which then is the rest of the split
AllowedArg(path, rest) == rest

\* what c.StaticGen.Hook may return
HookResults ==
    { [code |-> 0, err |-> "nil"],
      [code |-> StatusForbidden, err |-> "nil"],
      [code |-> 0, err |-> "EIO"] }

\* what c.File.Checksum may return as its error
ChecksumErrors == {"nil", "errInvalidOption", "EIO"}

\* a slip whose default case hands the request to the resource handler
HandlerOfDefaultResource(router) ==
    CASE router = wDownload -> "downloadHandler"
      [] router = wChecksum -> "checksumHandler"
      [] router = wCommand -> "command"
      [] router = wSearch -> "search"
      [] router = wUsers -> "usersHandler"
      [] router = wSettings -> "settingsHandler"
      [] router = wShare -> "shareHandler"
      [] OTHER -> "resourceHandler"

\* the handler the switch on c.Router selects
HandlerOf(router) ==
    CASE router = wDownload -> "downloadHandler"
      [] router = wChecksum -> "checksumHandler"
      [] router = wCommand -> "command"
      [] router = wSearch -> "search"
      [] router = wResource -> "resourceHandler"
      [] router = wUsers -> "usersHandler"
      [] router = wSettings -> "settingsHandler"
      [] router = wShare -> "shareHandler"
      [] OTHER -> "none"

\* a slip that compares the path with "/auth/get" whatever its case
IsAuthGetAnyCase(path) == ToLower(path) = AuthGetPath

\* if r.URL.Path == "/auth/get"
IsAuthGet(path) == path = AuthGetPath

\* if r.URL.Path == "/auth/renew"
IsAuthRenew(path) == path = AuthRenewPath

ApiAuthGet(p) ==
    /\ pc[p] = "api"
    /\ IsAuthGet(url[p])
    /\ \E hr \in HandlerResults :
          Return(p, Returned(resp[p], hr.code, hr.err),
                 <<Event("authHandler", url[p], hr)>>)
    /\ UNCHANGED <<baseURL, staticGen, db, now, req, url, ctx, call>>

ApiAuthRenew(p) ==
    /\ pc[p] = "api"
    /\ ~IsAuthGet(url[p])
    /\ IsAuthRenew(url[p])
    /\ \E hr \in HandlerResults :
          Return(p, Returned(resp[p], hr.code, hr.err),
                 <<Event("renewAuthHandler", url[p], hr)>>)
    /\ UNCHANGED <<baseURL, staticGen, db, now, req, url, ctx, call>>

\* valid, _ := validateAuth(c, r)
ApiValidate(p) ==
    /\ pc[p] = "api"
    /\ ~IsAuthGet(url[p])
    /\ ~IsAuthRenew(url[p])
    /\ \E valid \in BOOLEAN :
          IF Rejects(valid)
          THEN Return(p, Returned(resp[p], StatusForbidden, "nil"),
                      <<Event("validateAuth", url[p], Bool(valid))>>)
          ELSE Goto(p, "authorize", <<Event("validateAuth", url[p], Bool(valid))>>)
    /\ UNCHANGED <<baseURL, staticGen, db, now, req, url, ctx, call>>

\* c.Router, r.URL.Path = splitURL(r.URL.Path); then c.User.Allowed(r.URL.Path)
ApiAuthorize(p) ==
    /\ pc[p] = "authorize"
    /\ LET sp == splitURL(url[p])
       IN  /\ ctx' = [ctx EXCEPT ![p].Router = sp[1]]
           /\ url' = [url EXCEPT ![p] = sp[2]]
           /\ \E allowed \in BOOLEAN :
                 IF ~allowed
                 THEN Return(p, Returned(resp[p], StatusForbidden, "nil"),
                             <<Event("Allowed", AllowedArg(url[p], sp[2]), Bool(allowed))>>)
                 ELSE Goto(p, "hook",
                           <<Event("Allowed", AllowedArg(url[p], sp[2]), Bool(allowed))>>)
    /\ UNCHANGED <<baseURL, staticGen, db, now, req, call>>

\* the 'magic url' of the settings: r.URL.Path = c.StaticGen.SettingsPath()
Remapped(path) == IF path = Sl \o wSettings THEN SettingsPath ELSE path

\* a slip that stops on the hook's error only and ignores its status
HookStopsOnErrorOnly(hr) == hr.err # "nil"

\* if code != 0 || err != nil { return code, err }
HookStops(hr) == hr.code # 0 \/ hr.err # "nil"

\* if c.StaticGen != nil: the remap, then the generator's Hook, which may
\* rewrite r.URL.Path
ApiHook(p) ==
    /\ pc[p] = "hook"
    /\ IF staticGen
       THEN \E hr \in HookResults, rewrite \in BOOLEAN :
               /\ url' = [url EXCEPT ![p] = IF rewrite THEN HookPath ELSE Remapped(url[p])]
               /\ IF HookStops(hr)
                  THEN Return(p, Returned(resp[p], hr.code, hr.err),
                              <<Event("Hook", Remapped(url[p]), hr)>>)
                  ELSE Goto(p, "info", <<Event("Hook", Remapped(url[p]), hr)>>)
       ELSE /\ url' = url
            /\ Goto(p, "info", <<>>)
    /\ UNCHANGED <<baseURL, staticGen, db, now, req, ctx, call>>

\* info.Name(): the last element of the path
BaseName(path) ==
    LET seps == { i \in 1..Len(path) : path[i] = "/" }
    IN  IF seps = {} THEN path
        ELSE SubSeq(path, (CHOOSE i \in seps : \A j \in seps : j <= i) + 1, Len(path))

\* the File Descriptor of the file at path
FileAt(path) == [Path |-> path, Name |-> BaseName(path)]

\* a slip that resolves the file for the download route only
NeedsInfoDownloadOnly(router) == router = wDownload

\* if c.Router == "checksum" || c.Router == "download"
NeedsInfo(router) == router = wChecksum \/ router = wDownload

\* c.File, err = getInfo(r.URL, ...) for the checksum and download routes
ApiInfo(p) ==
    /\ pc[p] = "info"
    /\ IF NeedsInfo(ctx[p].Router)
       THEN \E e \in ErrKinds :
               IF e # "nil"
               THEN /\ Return(p, Returned(resp[p], errorToHTTP(e, FALSE), e),
                              <<Event("getInfo", url[p], e)>>)
                    /\ ctx' = ctx
               ELSE /\ Goto(p, "dispatch", <<Event("getInfo", url[p], e)>>)
                    /\ ctx' = [ctx EXCEPT ![p].File = FileAt(url[p])]
       ELSE /\ Goto(p, "dispatch", <<>>)
            /\ ctx' = ctx
    /\ UNCHANGED <<baseURL, staticGen, db, now, req, url, call>>

\* a slip that answers every failure of Checksum with 500
ChecksumStatusAlways500(e) == StatusInternalServerError

\* if err == errInvalidOption { return http.StatusBadRequest, err }
\* else if err != nil { return http.StatusInternalServerError, err }
ChecksumStatus(e) ==
    IF e = "errInvalidOption" THEN StatusBadRequest ELSE StatusInternalServerError

\* val, err := c.File.Checksum(query)
checksumHandler(p) ==
    \E e \in ChecksumErrors :
        LET ev == Event("checksumHandler", url[p], e)
        IN  CASE e # "nil" ->
                    Return(p, Returned(resp[p], ChecksumStatus(e), e), <<ev>>)
              [] OTHER ->
                    Return(p, Returned([resp[p] EXCEPT !.body = @ \o <<"checksum">>],
                                       0, "nil"), <<ev>>)

\* switch c.Router
ApiDispatch(p) ==
    /\ pc[p] = "dispatch"
    /\ LET h == HandlerOf(ctx[p].Router)
       IN  CASE h = "none" ->
                   Return(p, Returned(resp[p], StatusNotFound, "nil"), <<>>)
             [] h = "checksumHandler" -> checksumHandler(p)
             [] OTHER ->
                   \E hr \in HandlerResults :
                       Return(p, Returned(resp[p], hr.code, hr.err),
                              <<Event(h, url[p], hr)>>)
    /\ UNCHANGED <<baseURL, staticGen, db, now, req, url, ctx, call>>

---------------------------------------------------------------------------
(* Share Resolver: sharePage. *)

\* a slip that tests After where the code tests Before
IsExpiredAfter(s, t) == s.Expires /\ s.ExpireDate > t

\* a slip that forgets the expiration flag
IsExpiredAnyFlag(s, t) == s.ExpireDate < t

\* s.Expires && s.ExpireDate.Before(time.Now())
IsExpired(s, t) == s.Expires /\ s.ExpireDate < t

\* c.db.One("Hash", hash, &s) on a store that answers
Lookup(hash) == IF hash \in Hashes THEN db[hash] ELSE NoRecord

\* c.db.DeleteStruct(&s): storm reports ErrNotFound for a record that is not there
DeleteResult(s) == IF Lookup(s.Hash) = NoRecord THEN "ErrNotFound" ELSE "nil"

Share404 == "static/share/404.html"

\* err := c.db.One("Hash", r.URL.Path, &s): not found renders the share-404
\* page, another error returns 500, a record goes on to the expiry check
ShareLookup(p) ==
    /\ pc[p] = "share"
    /\ \E fails \in BOOLEAN :
          LET found == Lookup(url[p])
              err == IF fails THEN "EIO"
                     ELSE IF found = NoRecord THEN "ErrNotFound" ELSE "nil"
              ev == Event("One", url[p], err)
          IN  CASE err = "ErrNotFound" ->
                      /\ \E o \in RenderOutcomes :
                            Return(p, renderFile(resp[p], Share404, "text/html", o),
                                   <<ev, RenderEvent(Share404, "text/html", o)>>)
                      /\ ctx' = ctx
                [] err = "EIO" ->
                      /\ Return(p, Returned(resp[p], StatusInternalServerError, err), <<ev>>)
                      /\ ctx' = ctx
                [] OTHER ->
                      /\ Goto(p, "found", <<ev>>)
                      /\ ctx' = [ctx EXCEPT ![p].s = found]
    /\ UNCHANGED <<baseURL, staticGen, db, now, req, url, call>>

\* a slip that returns the error of the delete
ExpiredResultChecked(r, deleted, o) ==
    IF deleted # "nil" THEN Returned(r, StatusInternalServerError, deleted)
    ELSE renderFile(r, Share404, "text/html", o)

\* a slip that answers an expired share with 410 Gone
ExpiredResultGone(r, deleted, o) == Returned(r, StatusGone, "nil")

\* c.db.DeleteStruct(&s); return renderFile(..., "static/share/404.html", "text/html"):
\* what the delete returned is dropped
ExpiredResult(r, deleted, o) == renderFile(r, Share404, "text/html", o)

\* a slip that leaves the record in the store
DeletedNothing(store, s) == store

\* the store after c.db.DeleteStruct(&s)
Deleted(store, s) == [store EXCEPT ![s.Hash] = NoRecord]

\* the lazy-expiry path
ShareExpired(p) ==
    /\ pc[p] = "found"
    /\ IsExpired(ctx[p].s, now)
    /\ LET s == ctx[p].s
           deleted == DeleteResult(s)
       IN  /\ db' = Deleted(db, s)
           /\ \E o \in RenderOutcomes :
                 Return(p, ExpiredResult(resp[p], deleted, o),
                        <<Event("DeleteStruct", s.Hash, deleted),
                          RenderEvent(Share404, "text/html", o)>>)
    /\ ctx' = [ctx EXCEPT ![p].t = now]
    /\ UNCHANGED <<baseURL, staticGen, now, req, url, call>>

\* a slip that forces the download for dl=0 too
WantsPreviewEmptyOnly(dl) == dl = ""

\* if dl == "" || dl == "0": the inline preview; else the download
WantsPreview(dl) == dl = "" \/ dl = "0"

SharePreview == "static/share/index.html"

\* the inline preview: the template is compiled and executed as renderFile does,
\* with the File Descriptor as a variable
renderPreview(r, o) == renderFile(r, SharePreview, "text/html", o)

\* a live record: r.URL.Path = s.Path; os.Stat; c.File; preview or download
ShareServe(p) ==
    /\ pc[p] = "found"
    /\ ~IsExpired(ctx[p].s, now)
    /\ LET s == ctx[p].s
       IN  /\ url' = [url EXCEPT ![p] = s.Path]
           /\ \E e \in ErrKinds :
                 LET st == Event("Stat", s.Path, e)
                 IN  IF e # "nil"
                     THEN /\ Return(p, Returned(resp[p], errorToHTTP(e, FALSE), e), <<st>>)
                          /\ ctx' = [ctx EXCEPT ![p].t = now]
                     ELSE /\ ctx' = [ctx EXCEPT ![p].t = now, ![p].File = FileAt(s.Path)]
                          /\ IF WantsPreview(req[p].dl)
                             THEN \E o \in RenderOutcomes :
                                     Return(p, renderPreview(resp[p], o),
                                            <<st, Event("preview", <<SharePreview>> \o s.Path, o)>>)
                             ELSE \E hr \in HandlerResults :
                                     Return(p, Returned(resp[p], hr.code, hr.err),
                                            <<st, Event("downloadHandler", s.Path, hr)>>)
    /\ UNCHANGED <<baseURL, staticGen, db, now, req, call>>

---------------------------------------------------------------------------
(* The specifications. *)

\* one request at a time through the whole router
Step(p) ==
    \/ Receive(p, Requests)
    \/ ServeNotFound(p)
    \/ ServeServiceWorker(p)
    \/ ServeStatic(p)
    \/ ServeApi(p)
    \/ ServePreview(p)
    \/ ServeShare(p)
    \/ ServeIndex(p)
    \/ ApiAuthGet(p)
    \/ ApiAuthRenew(p)
    \/ ApiValidate(p)
    \/ ApiAuthorize(p)
    \/ ApiHook(p)
    \/ ApiInfo(p)
    \/ ApiDispatch(p)
    \/ ShareLookup(p)
    \/ ShareExpired(p)
    \/ ShareServe(p)
    \/ Finish(p)

Next == Tick \/ Step(1)

Spec == Init /\ [][Next]_vars

\* two request flows at once in the Share Resolver, on a service without base
\* path or generator
ConcRequests == { Request(q, "GET", dl) : q \in SharePaths, dl \in {"", "1"} }

InitConc ==
    /\ baseURL = Empty
    /\ staticGen = FALSE
    /\ db \in InitialStores
    /\ now = 0
    /\ TypeDefaults
    /\ call = NoCall

StepConc(p) ==
    \/ Receive(p, ConcRequests)
    \/ ServeShare(p)
    \/ ShareLookup(p)
    \/ ShareExpired(p)
    \/ ShareServe(p)
    \/ Finish(p)

NextConc == Tick \/ \E p \in Procs : StepConc(p)

SpecConc == InitConc /\ [][NextConc]_vars

---------------------------------------------------------------------------
(* The pure functions, applied to inputs drawn from bounded sets. *)

Alphabet == {"/", "a", "b"}
StringsUpTo(n) == UNION { [1..k -> Alphabet] : k \in 0..n }

ExamplePaths ==
    { Empty, Sl \o wSettings, Sl \o wSettings \o Sl \o wTheme, wNoslash }

PureCalls ==
    { [NoCall EXCEPT !.fn = "splitURL", !.path = q] :
        q \in StringsUpTo(MaxLen) \cup ExamplePaths }
    \cup { [NoCall EXCEPT !.fn = "errorToHTTP", !.err = e, !.gone = g] :
        e \in ErrKinds, g \in BOOLEAN }
    \cup { [NoCall EXCEPT !.fn = "matchURL", !.path = q, !.prefix = x] :
        q \in Prefixed(ApiPaths \cup StaticPaths \cup OtherPaths),
        x \in {Sl \o wApi, Sl \o wStatic} }

InitPure ==
    /\ baseURL = Empty
    /\ staticGen = FALSE
    /\ db = [h \in Hashes |-> NoRecord]
    /\ now = 0
    /\ TypeDefaults
    /\ call \in PureCalls

Pending(fn) == call.fn = fn /\ ~call.done

ApplySplitURL ==
    /\ Pending("splitURL")
    /\ call' = [call EXCEPT !.done = TRUE, !.out = splitURL(call.path)]
    /\ UNCHANGED <<baseURL, staticGen, db, now, pc, req, url, ctx, calls, resp>>

ApplyErrorToHTTP ==
    /\ Pending("errorToHTTP")
    /\ call' = [call EXCEPT !.done = TRUE, !.out = <<errorToHTTP(call.err, call.gone)>>]
    /\ UNCHANGED <<baseURL, staticGen, db, now, pc, req, url, ctx, calls, resp>>

ApplyMatchURL ==
    /\ Pending("matchURL")
    /\ call' = [call EXCEPT !.done = TRUE, !.out = <<matchURL(call.path, call.prefix)>>]
    /\ UNCHANGED <<baseURL, staticGen, db, now, pc, req, url, ctx, calls, resp>>

NextPure == ApplySplitURL \/ ApplyErrorToHTTP \/ ApplyMatchURL

SpecPure == InitPure /\ [][NextPure]_vars

---------------------------------------------------------------------------
(* Properties. *)

Events(p) == DOMAIN calls[p]
EventsOf(p, fns) == { i \in Events(p) : calls[p][i].fn \in fns }
HasEvent(p, fn) == EventsOf(p, {fn}) # {}
Done(p) == pc[p] = "done"

ResourceHandlers ==
    { "downloadHandler", "checksumHandler", "command", "search", "resourceHandler",
      "usersHandler", "settingsHandler", "shareHandler" }
\* everything apiHandler may invoke behind the authentication gate
GatedCalls == {"Allowed", "Hook", "getInfo"} \cup ResourceHandlers
\* everything apiHandler may invoke behind the authorization check
AuthorizedCalls == {"Hook", "getInfo"} \cup ResourceHandlers

\* the path apiHandler was entered with (the /api prefix stripped)
InApi(p) == HasEvent(p, "apiHandler")
ApiPath(p) == calls[p][1].arg
AuthExempt(q) == q = AuthGetPath \/ q = AuthRenewPath

(* C1: a request to apiHandler whose path is neither /auth/get nor
   /auth/renew has validateAuth asked first; when validateAuth reports it
   not valid, none of Allowed, the generator hook, getInfo or a resource-area
   handler is ever invoked for it, and it ends with (403, nil).  This holds
   whatever the resource-area token. *)
C1_InvalidAuthForbidden ==
    \A p \in Procs :
        (InApi(p) /\ ~AuthExempt(ApiPath(p)) /\ pc[p] # "api") =>
            /\ Len(calls[p]) >= 2
            /\ calls[p][2].fn = "validateAuth"
            /\ calls[p][2].ret = "false" =>
                  /\ EventsOf(p, GatedCalls) = {}
                  /\ Done(p)
                  /\ resp[p].state = "returned"
                  /\ resp[p].code = 403
                  /\ resp[p].err = "nil"

\* an unauthenticated request for the download area was answered 403
C1_Witness ==
    \E p \in Procs :
        /\ Done(p) /\ InApi(p)
        /\ splitURL(ApiPath(p))[1] = wDownload
        /\ HasEvent(p, "validateAuth")
        /\ calls[p][2].ret = "false"
        /\ resp[p].code = 403

(* C2: for an authenticated request, User.Allowed is called exactly once,
   with the rest that splitURL returns for the path apiHandler was entered
   with, before the hook, getInfo and any handler; when it answers false the
   result is (403, nil) and the hook, getInfo and every handler are never
   invoked. *)
C2_AllowedOncePostSplitFirst ==
    \A p \in Procs :
        (InApi(p) /\ \E i \in Events(p) :
                        calls[p][i].fn = "validateAuth" /\ calls[p][i].ret = "true") =>
            LET asked == EventsOf(p, {"Allowed"})
            IN  /\ Cardinality(asked) <= 1
                /\ pc[p] # "authorize" => Cardinality(asked) = 1
                /\ \A i \in asked :
                      /\ calls[p][i].arg = splitURL(ApiPath(p))[2]
                      /\ \A j \in EventsOf(p, AuthorizedCalls) : i < j
                      /\ calls[p][i].ret = "false" =>
                            /\ EventsOf(p, AuthorizedCalls) = {}
                            /\ Done(p)
                            /\ resp[p].state = "returned"
                            /\ resp[p].code = 403
                            /\ resp[p].err = "nil"
                /\ EventsOf(p, AuthorizedCalls) # {} => asked # {}

\* Allowed refused a rest that differs from the path before the split
C2_Witness ==
    \E p \in Procs :
        /\ Done(p) /\ InApi(p)
        /\ \E i \in EventsOf(p, {"Allowed"}) :
              /\ calls[p][i].ret = "false"
              /\ calls[p][i].arg = Sl \o wX
              /\ calls[p][i].arg # ApiPath(p)
        /\ resp[p].code = 403

\* Allowed was asked about path q in this request and answered true
Authorized(p, q, before) ==
    \E i \in EventsOf(p, {"Allowed"}) :
        i < before /\ calls[p][i].arg = q /\ calls[p][i].ret = "true"

(* C3: the path the generator hook receives is a path for which Allowed was
   asked and answered true in the same request, and so is the path getInfo
   and the dispatched handler receive, unless the hook itself rewrote it;
   also when the rest is /settings and a generator is configured. *)
C3_HookPathAuthorized ==
    \A p \in Procs :
        InApi(p) =>
            \A i \in Events(p) :
                /\ calls[p][i].fn = "Hook" => Authorized(p, calls[p][i].arg, i)
                /\ calls[p][i].fn \in {"getInfo"} \cup ResourceHandlers =>
                      \/ Authorized(p, calls[p][i].arg, i)
                      \/ \E j \in EventsOf(p, {"Hook"}) : calls[p][j].arg # calls[p][i].arg

(* C4: with a non-empty base path, a request whose path does not start with
   it gets (404, nil) from serveHTTP and nothing else happens: no render, no
   file serving, no apiHandler, no Preview, no sharePage, no header.  With an
   empty base path no request is answered that way. *)
C4_BaseMismatchNotFound ==
    \A p \in Procs :
        pc[p] \notin {"idle", "serve"} =>
            /\ (baseURL # Empty /\ ~HasPrefix(req[p].path, baseURL)) =>
                  /\ Done(p)
                  /\ resp[p].state = "returned"
                  /\ resp[p].code = 404
                  /\ resp[p].err = "nil"
                  /\ Len(calls[p]) = 0
                  /\ resp[p].headers = {}
                  /\ resp[p].body = <<>>
                  /\ url[p] = req[p].path
            /\ baseURL = Empty => ~(Done(p) /\ Len(calls[p]) = 0 /\ resp[p].code = 404)

\* an API path outside the base path /fm was answered 404
C4_Witness ==
    \E p \in Procs :
        /\ baseURL = Sl \o wFm
        /\ Done(p)
        /\ req[p].path = Sl \o wApi \o Sl \o wDownload \o Sl \o wX
        /\ resp[p].code = 404
        /\ Len(calls[p]) = 0

InShare(p) == HasEvent(p, "sharePage")
\* the hash sharePage was entered with
ShareHash(p) == calls[p][1].arg
\* the request found its record expired and deleted it
TookExpiry(p) == InShare(p) /\ HasEvent(p, "DeleteStruct")
\* the request's lookup reported that there is no record
TookNotFound(p) ==
    InShare(p) /\ \E i \in EventsOf(p, {"One"}) : calls[p][i].ret = "ErrNotFound"
\* how the render of the request ended
RenderOutcome(p) == calls[p][CHOOSE i \in EventsOf(p, {"renderFile"}) : TRUE].ret
\* what the request's delete returned
DeleteReturned(p) == calls[p][CHOOSE i \in EventsOf(p, {"DeleteStruct"}) : TRUE].ret

(* C5: a request that finds its record expired (flag set, timestamp before
   the time it reads) deletes it from the store and returns exactly what a
   request for a hash without a record returns, be that hash never stored or
   the record deleted by an earlier identical request: same status, same
   error, same headers (content type), same body (the share-404 template),
   given the same outcome of the render.  What the delete returned changes
   nothing of it. *)
C5_ExpiredLikeNeverStored ==
    \A p \in Procs :
        (Done(p) /\ TookExpiry(p)) =>
            /\ ctx[p].s.Expires /\ ctx[p].s.ExpireDate < ctx[p].t
            /\ Lookup(ShareHash(p)) = NoRecord
            /\ \A q \in Procs :
                  ( /\ Done(q)
                    /\ TookNotFound(q) \/ TookExpiry(q)
                    /\ RenderOutcome(q) = RenderOutcome(p) ) => resp[q] = resp[p]

\* the first request deleted the record of h1, a second request for h1 and so
\* found none, and both were answered with the share-404 page
C5_Witness ==
    \E p, q \in Procs :
        /\ Done(p) /\ TookExpiry(p) /\ DeleteReturned(p) = "nil"
        /\ Done(q) /\ TookNotFound(q)
        /\ ShareHash(p) = h1 /\ ShareHash(q) = h1
        /\ req[p] = req[q]
        /\ RenderOutcome(p) = "ok" /\ RenderOutcome(q) = "ok"
        /\ resp[p] = resp[q]
        /\ resp[p].code = 0
        /\ resp[p].body = <<Share404>>

\* the request went past the expiry check and served the share
Served(p) ==
    /\ InShare(p)
    /\ \/ EventsOf(p, {"Stat", "preview", "downloadHandler"}) # {}
       \/ ctx[p].File # NoFile

(* C6: sharePage calls os.Stat, attaches a File Descriptor, renders the
   preview or calls downloadHandler only for a record that is not expired at
   the time its expiry check reads (flag not set, or timestamp not before
   that time); and it takes the expiry path only for a record whose flag is
   set and whose timestamp is before that time. *)
C6_NeverServesExpired ==
    \A p \in Procs :
        /\ Served(p) =>
              /\ ctx[p].t >= 0
              /\ ~(ctx[p].s.Expires /\ ctx[p].s.ExpireDate < ctx[p].t)
        /\ TookExpiry(p) =>
              /\ ctx[p].s.Expires
              /\ ctx[p].s.ExpireDate < ctx[p].t

\* a record without the flag and with a timestamp in the past was served, while
\* a flagged one was refused
C6_Witness ==
    \E p, q \in Procs :
        /\ Done(p) /\ Served(p) /\ HasEvent(p, "downloadHandler")
        /\ ~ctx[p].s.Expires /\ ctx[p].s.ExpireDate < ctx[p].t
        /\ Done(q) /\ TookExpiry(q)

\* the response is the result of rendering the share-404 page
IsShare404Render(p) ==
    /\ \E i \in EventsOf(p, {"renderFile"}) : calls[p][i].arg = <<Share404, "text/html">>
    /\ resp[p].err \notin {"ErrNotFound", "EIO"}
    /\ RenderOutcome(p) = "ok" =>
          /\ resp[p].state = "returned" /\ resp[p].code = 0 /\ resp[p].err = "nil"
          /\ resp[p].body = <<Share404>>
          /\ resp[p].headers = {<<"Content-Type", <<"text/html", "; charset=utf-8">>>>}
    /\ RenderOutcome(p) \in {"execErr", "execErrPartial"} =>
          /\ resp[p].state = "returned" /\ resp[p].code = 500 /\ resp[p].err = "execErr"
    /\ RenderOutcome(p) = "parseErr" => resp[p].state = "panic"

(* C7: two requests for the same expired hash, however their lookups and
   deletes interleave: each returns the result of rendering the share-404
   page, a 500 only when the render itself failed and never the error of the
   delete, and when both have finished the record is not in the store. *)
C7_ConcurrentExpiry ==
    \A p, q \in Procs :
        ( /\ p # q /\ Done(p) /\ Done(q)
          /\ ShareHash(p) = ShareHash(q)
          /\ TookExpiry(p)
          /\ TookExpiry(q) \/ TookNotFound(q) ) =>
            /\ IsShare404Render(p)
            /\ IsShare404Render(q)
            /\ Lookup(ShareHash(p)) = NoRecord

\* both requests looked the record up before either deleted it: the second
\* delete found nothing to delete, and both were answered with the page
C7_Witness ==
    \E p, q \in Procs :
        /\ p # q /\ Done(p) /\ Done(q)
        /\ ShareHash(p) = ShareHash(q)
        /\ TookExpiry(p) /\ DeleteReturned(p) = "nil"
        /\ TookExpiry(q) /\ DeleteReturned(q) = "ErrNotFound"
        /\ resp[p].code = 0 /\ resp[q].code = 0

\* a path with one leading separator stripped
StripOne(q) == IF q # Empty /\ Head(q) = "/" THEN Tail(q) ELSE q
HasSeparator(q) == \E i \in 1..Len(q) : q[i] = "/"
Applied(fn) == call.fn = fn /\ call.done

(* C8, as claimed: splitURL returns ("", "") for "", ("settings", "") for
   "/settings", ("settings", "/theme") for "/settings/theme" and
   ("", "noslash") for "noslash"; after one leading separator is stripped the
   head is the text before the first remaining separator, and the rest is
   empty or begins with a separator. *)
C8_AsClaimed ==
    Applied("splitURL") =>
        LET head == call.out[1]
            rest == call.out[2]
        IN  /\ call.path = Empty => call.out = <<Empty, Empty>>
            /\ call.path = Sl \o wSettings => call.out = <<wSettings, Empty>>
            /\ call.path = Sl \o wSettings \o Sl \o wTheme =>
                  call.out = <<wSettings, Sl \o wTheme>>
            /\ call.path = wNoslash => call.out = <<Empty, wNoslash>>
            /\ ~HasSeparator(head)
            /\ head \o rest = StripOne(call.path)
            /\ rest = Empty \/ Head(rest) = "/"

(* C8, amended: splitURL returns ("", "") for "", ("", "settings") for
   "/settings", ("settings", "/theme") for "/settings/theme" and
   ("", "noslash") for "noslash"; after one leading separator is stripped,
   if a separator remains the head is the text before the first remaining
   separator and the rest begins with that separator, and if none remains
   the head is empty and the rest is the whole stripped text. *)
C8_SplitURL ==
    Applied("splitURL") =>
        LET head == call.out[1]
            rest == call.out[2]
            t == StripOne(call.path)
        IN  /\ call.path = Empty => call.out = <<Empty, Empty>>
            /\ call.path = Sl \o wSettings => call.out = <<Empty, wSettings>>
            /\ call.path = Sl \o wSettings \o Sl \o wTheme =>
                  call.out = <<wSettings, Sl \o wTheme>>
            /\ call.path = wNoslash => call.out = <<Empty, wNoslash>>
            /\ ~HasSeparator(head)
            /\ head \o rest = t
            /\ IF HasSeparator(t)
               THEN rest # Empty /\ Head(rest) = "/"
               ELSE head = Empty /\ rest = t

\* splitURL was applied to "/settings" and to no token at all
C8_Witness ==
    /\ Applied("splitURL")
    /\ call.path = Sl \o wSettings
    /\ call.out = <<Empty, wSettings>>

(* C9: errorToHTTP maps no error to 200, a permission error to 403, a
   not-exist error to 404 when gone is false and to 410 when gone is true, an
   already-exists error to 409 and any other error to 500; so the gone flag
   changes the result for not-exist errors only. *)
C9_ErrorToHTTP ==
    Applied("errorToHTTP") =>
        LET e == call.err
            code == call.out[1]
        IN  /\ e = "nil" => code = 200
            /\ e \in {"EACCES", "EPERM"} => code = 403
            /\ (e = "ENOENT" /\ ~call.gone) => code = 404
            /\ (e = "ENOENT" /\ call.gone) => code = 410
            /\ e \in {"EEXIST", "ENOTEMPTY"} => code = 409
            /\ e = "EIO" => code = 500
            /\ e \in {"nil", "EACCES", "EPERM", "ENOENT", "EEXIST", "ENOTEMPTY", "EIO"}

\* a not-exist error with the gone flag set was mapped to 410
C9_Witness ==
    /\ Applied("errorToHTTP")
    /\ call.err = "ENOENT" /\ call.gone
    /\ call.out = <<410>>

\* the share resolved to a live record whose target was stat-ed successfully
Live(p) ==
    InShare(p) /\ \E i \in EventsOf(p, {"Stat"}) : calls[p][i].ret = "nil"
\* the outcome of the preview's render
PreviewOutcome(p) == calls[p][CHOOSE i \in EventsOf(p, {"preview"}) : TRUE].ret
\* the request called downloadHandler exactly once, rendered no preview and
\* returned what downloadHandler returned
Downloaded(p) ==
    /\ Cardinality(EventsOf(p, {"downloadHandler"})) = 1
    /\ EventsOf(p, {"preview", "renderFile"}) = {}
    /\ resp[p].headers = {} /\ resp[p].body = <<>>
    /\ \A i \in EventsOf(p, {"downloadHandler"}) :
          /\ resp[p].state = "returned"
          /\ resp[p].code = calls[p][i].ret.code
          /\ resp[p].err = calls[p][i].ret.err
\* the request rendered the preview with the attached File Descriptor, once,
\* without calling downloadHandler
Previewed(p) ==
    /\ Cardinality(EventsOf(p, {"preview"})) = 1
    /\ EventsOf(p, {"downloadHandler"}) = {}
    /\ ctx[p].File = FileAt(ctx[p].s.Path)
    /\ \A i \in EventsOf(p, {"preview"}) :
          calls[p][i].arg = <<SharePreview>> \o ctx[p].File.Path

(* C10, as claimed: for a live record whose target stats successfully,
   sharePage renders the preview with the attached File Descriptor and
   returns status 0 without calling downloadHandler when dl is absent, empty
   or "0", and for every other dl calls downloadHandler exactly once, renders
   no preview and returns its (status, error). *)
C10_AsClaimed ==
    \A p \in Procs :
        (Done(p) /\ Live(p)) =>
            IF req[p].dl \in {"", "0"}
            THEN /\ Previewed(p)
                 /\ resp[p].state = "returned"
                 /\ resp[p].code = 0
            ELSE Downloaded(p)

(* C10, amended: as claimed, but the preview returns (0, nil) only when its
   template executes; when the execution fails sharePage returns 500 with
   the error, and when the template does not compile the request aborts. *)
C10_PreviewOrDownload ==
    \A p \in Procs :
        (Done(p) /\ Live(p)) =>
            IF req[p].dl \in {"", "0"}
            THEN /\ Previewed(p)
                 /\ PreviewOutcome(p) = "ok" =>
                       /\ resp[p].state = "returned"
                       /\ resp[p].code = 0 /\ resp[p].err = "nil"
                       /\ resp[p].body = <<SharePreview>>
                 /\ PreviewOutcome(p) \in {"execErr", "execErrPartial"} =>
                       /\ resp[p].state = "returned"
                       /\ resp[p].code = 500 /\ resp[p].err = "execErr"
                 /\ PreviewOutcome(p) = "parseErr" => resp[p].state = "panic"
            ELSE Downloaded(p)

\* a live share requested with dl=0 was previewed and returned status 0
C10_Witness ==
    \E p \in Procs :
        /\ Done(p) /\ Live(p)
        /\ req[p].dl = "0"
        /\ Previewed(p)
        /\ PreviewOutcome(p) = "ok"
        /\ resp[p].code = 0

---------------------------------------------------------------------------
(* The Router's branches. *)

\* the request passed the base-path check and a branch has acted on it
Handled(p) ==
    /\ pc[p] \notin {"idle", "serve"}
    /\ baseURL = Empty \/ HasPrefix(req[p].path, baseURL)
\* the request's path below the base path
PathBelow(p) == SubSeq(req[p].path, Len(baseURL) + 1, Len(req[p].path))
\* the request's path matches the /static prefix
IsStatic(p) == Handled(p) /\ matchURL(PathBelow(p), Sl \o wStatic)

(* C11: for a request whose path below the base path matches the /static
   prefix: when its method is not GET the router returns 501 and neither the
   file server nor a render runs; when its method is GET and the path is
   exactly /static/manifest.json the manifest is rendered by renderFile with
   content type application/json and the file server does not run; for every
   other GET path the file server serves it and the result is (0, nil). *)
C11_StaticBranch ==
    \A p \in Procs :
        IsStatic(p) =>
            /\ Done(p)
            /\ req[p].method # "GET" =>
                  /\ Len(calls[p]) = 0
                  /\ resp[p] = Returned(NoResponse, StatusNotImplemented, "nil")
            /\ req[p].method = "GET" /\ PathBelow(p) = Sl \o wStatic \o Sl \o wManifest =>
                  /\ Cardinality(EventsOf(p, {"renderFile"})) = 1
                  /\ \A i \in EventsOf(p, {"renderFile"}) :
                        calls[p][i].arg = <<"static/manifest.json", "application/json">>
                  /\ ~HasEvent(p, "FileServer")
                  /\ RenderOutcome(p) = "ok" =>
                        /\ <<"Content-Type", <<"application/json", "; charset=utf-8">>>>
                              \in resp[p].headers
                        /\ resp[p].body = <<"static/manifest.json">>
            /\ req[p].method = "GET" /\ PathBelow(p) # Sl \o wStatic \o Sl \o wManifest =>
                  /\ Cardinality(EventsOf(p, {"FileServer"})) = 1
                  /\ \A i \in EventsOf(p, {"FileServer"}) : calls[p][i].arg = PathBelow(p)
                  /\ ~HasEvent(p, "renderFile")
                  /\ resp[p].state = "returned"
                  /\ resp[p].code = 0
                  /\ resp[p].err = "nil"

\* the manifest was asked for with GET below a non-empty base path, and rendered
C11_Witness ==
    \E p \in Procs :
        /\ IsStatic(p)
        /\ baseURL # Empty
        /\ req[p].method = "GET"
        /\ PathBelow(p) = Sl \o wStatic \o Sl \o wManifest
        /\ HasEvent(p, "renderFile")
        /\ RenderOutcome(p) = "ok"
        /\ resp[p].code = 0

---------------------------------------------------------------------------
(* The Renderer. *)

\* the request called renderFile and is over
Rendered(p) == Done(p) /\ HasEvent(p, "renderFile")
\* the response carries a Content-Type header
HasContentType(p) == \E h \in resp[p].headers : h[1] = "Content-Type"

(* C12: renderFile returns (500, err) whenever compiling the template or
   executing it fails and (0, nil) otherwise; the request never ends in
   another way, such as a panic, and on a failure no header and no part of
   the body has been written. *)
C12_RenderFailure ==
    \A p \in Procs :
        Rendered(p) =>
            /\ resp[p].state = "returned"
            /\ RenderOutcome(p) = "ok" => resp[p].code = 0 /\ resp[p].err = "nil"
            /\ RenderOutcome(p) # "ok" =>
                  /\ resp[p].code = StatusInternalServerError
                  /\ resp[p].err # "nil"
                  /\ ~HasContentType(p)
                  /\ resp[p].body = <<>>

---------------------------------------------------------------------------
(* The API Dispatcher's branches. *)

\* what c.File.Checksum returned to the request's checksumHandler
ChecksumReturned(p) == calls[p][CHOOSE i \in EventsOf(p, {"checksumHandler"}) : TRUE].ret

(* C13: checksumHandler returns 400 with the error when the checksum
   algorithm is not supported and 500 with the error when computing the
   checksum fails in another way, in both cases writing nothing; when the
   checksum is computed it writes exactly that value as the body and returns
   (0, nil). *)
C13_Checksum ==
    \A p \in Procs :
        HasEvent(p, "checksumHandler") =>
            /\ Done(p)
            /\ Cardinality(EventsOf(p, {"checksumHandler"})) = 1
            /\ resp[p].state = "returned"
            /\ ChecksumReturned(p) = "errInvalidOption" =>
                  resp[p] = Returned(NoResponse, StatusBadRequest, "errInvalidOption")
            /\ ChecksumReturned(p) \notin {"errInvalidOption", "nil"} =>
                  resp[p] = Returned(NoResponse, StatusInternalServerError, ChecksumReturned(p))
            /\ ChecksumReturned(p) = "nil" =>
                  /\ resp[p].code = 0
                  /\ resp[p].err = "nil"
                  /\ resp[p].body = <<"checksum">>

\* an unsupported algorithm was asked for and answered with 400
C13_Witness ==
    \E p \in Procs :
        /\ HasEvent(p, "checksumHandler")
        /\ ChecksumReturned(p) = "errInvalidOption"
        /\ resp[p].code = StatusBadRequest
        /\ resp[p].body = <<>>

\* everything apiHandler may invoke
ApiCollaborators == {"authHandler", "renewAuthHandler"} \cup GatedCalls
\* validateAuth answered true before the request's event i
ValidatedBefore(p, i) ==
    \E j \in EventsOf(p, {"validateAuth"}) : j < i /\ calls[p][j].ret = "true"
\* the request went to the auth handler fn and to nothing else, and ended
\* with what that handler returned
OnlyAuthHandler(p, fn) ==
    /\ Done(p)
    /\ Len(calls[p]) = 2
    /\ calls[p][2].fn = fn
    /\ calls[p][2].arg = ApiPath(p)
    /\ resp[p] = Returned(NoResponse, calls[p][2].ret.code, calls[p][2].ret.err)
    /\ ctx[p] = NoContext
    /\ url[p] = ApiPath(p)

(* C14: the only paths for which apiHandler runs a collaborator without
   validateAuth having answered true before are the path /auth/get, which
   goes to authHandler, and the path /auth/renew, which goes to
   renewAuthHandler, both compared for exact, case-sensitive equality with
   the path behind /api.  For these two neither validateAuth, splitURL,
   Allowed, the hook nor the switch is reached and the auth handler's
   (status, error) is returned verbatim; no other path reaches an auth
   handler. *)
C14_AuthExemptPaths ==
    \A p \in Procs :
        InApi(p) =>
            /\ \A i \in EventsOf(p, ApiCollaborators) :
                  \/ ValidatedBefore(p, i)
                  \/ calls[p][i].fn = "authHandler" /\ ApiPath(p) = AuthGetPath
                  \/ calls[p][i].fn = "renewAuthHandler" /\ ApiPath(p) = AuthRenewPath
            /\ ApiPath(p) = AuthGetPath /\ pc[p] # "api" => OnlyAuthHandler(p, "authHandler")
            /\ ApiPath(p) = AuthRenewPath /\ pc[p] # "api" =>
                  OnlyAuthHandler(p, "renewAuthHandler")
            /\ ~AuthExempt(ApiPath(p)) =>
                  /\ EventsOf(p, {"authHandler", "renewAuthHandler"}) = {}
                  /\ pc[p] # "api" => calls[p][2].fn = "validateAuth"

\* /auth/get was asked for and the auth handler's failure came back as it was
C14_Witness ==
    \E p \in Procs :
        /\ InApi(p)
        /\ Done(p)
        /\ ApiPath(p) = AuthGetPath
        /\ HasEvent(p, "authHandler")
        /\ resp[p].code = StatusInternalServerError
        /\ resp[p].err = "EIO"

\* the request's path below the base path, without its first four characters
BehindApi(p) == SubSeq(PathBelow(p), 5, Len(PathBelow(p)))

(* C15: every request whose path below the base path matches the /api
   prefix, in whatever case, reaches apiHandler with that path less its first
   four characters; so a path that matches /api and goes on with /auth/get
   reaches the auth handler, and one that goes on with /resource/x is
   dispatched with the token resource. *)
C15_ApiPrefixStripped ==
    \A p \in Procs :
        Handled(p) /\ matchURL(PathBelow(p), Sl \o wApi) =>
            /\ InApi(p)
            /\ ApiPath(p) = BehindApi(p)
            /\ BehindApi(p) = AuthGetPath /\ Done(p) => HasEvent(p, "authHandler")
            /\ BehindApi(p) = Sl \o wResource \o Sl \o wX /\ pc[p] \in {"hook", "info", "dispatch"} =>
                  ctx[p].Router = wResource

\* the request passed authentication and authorization
PassedChecks(p) ==
    /\ InApi(p)
    /\ \E i \in EventsOf(p, {"Allowed"}) : calls[p][i].ret = "true"
\* the place in the request's log where Allowed answered true
AllowedAt(p) == CHOOSE i \in EventsOf(p, {"Allowed"}) : calls[p][i].ret = "true"
\* the path Allowed was asked about
AllowedPath(p) == calls[p][AllowedAt(p)].arg
\* the request left the hook's place in apiHandler behind
PastHook(p) == pc[p] \in {"info", "dispatch", "done"}
\* what the request's hook was called with and what it returned
HookEvent(p) == calls[p][CHOOSE i \in EventsOf(p, {"Hook"}) : TRUE]
\* getInfo and the handlers
InfoAndHandlers == {"getInfo"} \cup ResourceHandlers

(* C16: with a generator configured, a request that passed authentication
   and authorization has the hook invoked exactly once, with the path after
   the /settings remap, before getInfo and every handler; when the hook
   returns a status other than 0 or an error, apiHandler returns exactly that
   pair and neither getInfo nor a handler is invoked; when it returns
   (0, nil) the request goes on to the file info and the switch.  With no
   generator configured the hook is never invoked and the path is never
   remapped. *)
C16_Hook ==
    \A p \in Procs :
        /\ HasEvent(p, "Hook") => staticGen /\ PassedChecks(p)
        /\ PassedChecks(p) /\ staticGen /\ ~PastHook(p) => Len(calls[p]) = AllowedAt(p)
        /\ PassedChecks(p) /\ staticGen /\ PastHook(p) =>
              /\ EventsOf(p, {"Hook"}) = {AllowedAt(p) + 1}
              /\ HookEvent(p).arg =
                    IF AllowedPath(p) = Sl \o wSettings THEN SettingsPath ELSE AllowedPath(p)
              /\ \A i \in EventsOf(p, InfoAndHandlers) : i > AllowedAt(p) + 1
              /\ HookEvent(p).ret.code # 0 \/ HookEvent(p).ret.err # "nil" =>
                    /\ Done(p)
                    /\ resp[p] = Returned(NoResponse, HookEvent(p).ret.code, HookEvent(p).ret.err)
                    /\ EventsOf(p, InfoAndHandlers) = {}
              /\ HookEvent(p).ret.code = 0 /\ HookEvent(p).ret.err = "nil" /\ Done(p) =>
                    /\ ctx[p].Router \in {wChecksum, wDownload} => HasEvent(p, "getInfo")
                    /\ \/ EventsOf(p, InfoAndHandlers) # {}
                       \/ resp[p] = Returned(NoResponse, StatusNotFound, "nil")
        /\ PassedChecks(p) /\ ~staticGen =>
              /\ url[p] = AllowedPath(p)
              /\ \A i \in EventsOf(p, InfoAndHandlers) : calls[p][i].arg = AllowedPath(p)

\* the hook was called with the generator's settings path and vetoed the request
C16_Witness ==
    \E p \in Procs :
        /\ PassedChecks(p)
        /\ staticGen
        /\ Done(p)
        /\ HasEvent(p, "Hook")
        /\ AllowedPath(p) = Sl \o wSettings
        /\ HookEvent(p).arg = SettingsPath
        /\ HookEvent(p).ret = [code |-> StatusForbidden, err |-> "nil"]
        /\ resp[p].code = StatusForbidden

\* the request reached the switch on c.Router: it passed the checks, the hook
\* let it through and the file info, where needed, was found
ReachedSwitch(p) ==
    /\ PassedChecks(p)
    /\ Done(p)
    /\ HasEvent(p, "Hook") => HookEvent(p).ret = [code |-> 0, err |-> "nil"]
    /\ \A i \in EventsOf(p, {"getInfo"}) : calls[p][i].ret = "nil"
\* the handler each token of the resource areas names
TokenHandlers ==
    { <<wDownload, "downloadHandler">>, <<wChecksum, "checksumHandler">>,
      <<wCommand, "command">>, <<wSearch, "search">>,
      <<wResource, "resourceHandler">>, <<wUsers, "usersHandler">>,
      <<wSettings, "settingsHandler">>, <<wShare, "shareHandler">> }
\* the token splitURL takes from the path apiHandler was entered with
Token(p) == splitURL(ApiPath(p))[1]
\* the request's one handler event
HandlerEvent(p) == calls[p][CHOOSE i \in EventsOf(p, ResourceHandlers) : TRUE]

(* C17: an authenticated and authorized API request that neither the hook nor
   a file-info failure ended has at most one resource-area handler invoked:
   the one named by the token splitURL stored in Router (download, checksum,
   command, search, resource, users, settings, share), whose (status, error)
   is returned verbatim; for every other token, the empty one included, no
   handler is invoked and the result is (404, nil). *)
C17_Switch ==
    \A p \in Procs :
        /\ InApi(p) => Cardinality(EventsOf(p, ResourceHandlers)) <= 1
        /\ ReachedSwitch(p) =>
              /\ ctx[p].Router = Token(p)
              /\ \A th \in TokenHandlers :
                    th[1] = Token(p) =>
                        /\ Cardinality(EventsOf(p, ResourceHandlers)) = 1
                        /\ HandlerEvent(p).fn = th[2]
                        /\ th[2] # "checksumHandler" =>
                              resp[p] = Returned(NoResponse, HandlerEvent(p).ret.code,
                                                 HandlerEvent(p).ret.err)
                        /\ th[2] = "checksumHandler" =>
                              /\ resp[p].state = "returned"
                              /\ resp[p].err = HandlerEvent(p).ret
              /\ (\A th \in TokenHandlers : th[1] # Token(p)) =>
                    /\ EventsOf(p, ResourceHandlers) = {}
                    /\ resp[p] = Returned(NoResponse, StatusNotFound, "nil")

\* a request with a token that names no handler was answered (404, nil)
C17_Witness ==
    \E p \in Procs :
        /\ ReachedSwitch(p)
        /\ Token(p) = wBogus
        /\ EventsOf(p, ResourceHandlers) = {}
        /\ resp[p].code = StatusNotFound

\* the request left the file-info step of apiHandler behind
PastInfo(p) ==
    /\ PassedChecks(p)
    /\ pc[p] \in {"dispatch", "done"}
    /\ HasEvent(p, "Hook") => HookEvent(p).ret = [code |-> 0, err |-> "nil"]
\* the request's getInfo event
InfoEvent(p) == calls[p][CHOOSE i \in EventsOf(p, {"getInfo"}) : TRUE]
\* the handlers that read c.File
FileHandlers == {"downloadHandler", "checksumHandler"}

(* C18: downloadHandler and checksumHandler are invoked only with a File
   Descriptor attached to the Request Context.  On the API path getInfo is
   called if and only if the token is checksum or download; when it fails,
   apiHandler returns errorToHTTP(err, false) with the error and invokes no
   handler; when it succeeds the file it found is attached.  On the share
   path downloadHandler is called only after os.Stat succeeded and the
   descriptor was attached.  For every other API token the dispatcher leaves
   the context's file unset. *)
C18_FileAttached ==
    \A p \in Procs :
        /\ \A i \in EventsOf(p, FileHandlers) :
              /\ ctx[p].File # NoFile
              /\ InApi(p) =>
                    \E j \in EventsOf(p, {"getInfo"}) :
                        /\ j < i
                        /\ calls[p][j].ret = "nil"
                        /\ ctx[p].File.Path = calls[p][j].arg
              /\ InShare(p) =>
                    \E j \in EventsOf(p, {"Stat"}) :
                        /\ j < i
                        /\ calls[p][j].ret = "nil"
                        /\ ctx[p].File.Path = calls[p][j].arg
        /\ InApi(p) =>
              /\ HasEvent(p, "getInfo") => PastInfo(p) /\ ctx[p].Router \in {wChecksum, wDownload}
              /\ PastInfo(p) /\ ctx[p].Router \in {wChecksum, wDownload} =>
                    Cardinality(EventsOf(p, {"getInfo"})) = 1
              /\ HasEvent(p, "getInfo") /\ InfoEvent(p).ret # "nil" =>
                    /\ Done(p)
                    /\ resp[p] = Returned(NoResponse, errorToHTTP(InfoEvent(p).ret, FALSE),
                                          InfoEvent(p).ret)
                    /\ EventsOf(p, ResourceHandlers) = {}
                    /\ ctx[p].File = NoFile
              /\ ctx[p].Router \notin {wChecksum, wDownload} => ctx[p].File = NoFile

\* a checksum request whose file does not exist was answered 404 by the
\* file-info step, and no handler ran
C18_Witness ==
    \E p \in Procs :
        /\ PastInfo(p)
        /\ ctx[p].Router = wChecksum
        /\ HasEvent(p, "getInfo")
        /\ InfoEvent(p).ret = "ENOENT"
        /\ resp[p].code = StatusNotFound
        /\ EventsOf(p, ResourceHandlers) = {}

\* the request's log has a render of file with the content type
RenderedAs(p, file, contentType) ==
    \E i \in EventsOf(p, {"renderFile"}) : calls[p][i].arg = <<file, contentType>>
\* the top-level branches that acted on the request
BranchesTaken(p) ==
    { b \in {"sw", "static", "api", "preview", "share", "index"} :
        \/ b = "sw" /\ RenderedAs(p, "sw.js", "application/javascript")
        \/ b = "static" /\ \/ HasEvent(p, "staticHandler")
                           \/ Len(calls[p]) = 0 /\ resp[p].code = StatusNotImplemented
        \/ b = "api" /\ HasEvent(p, "apiHandler")
        \/ b = "preview" /\ HasEvent(p, "Preview")
        \/ b = "share" /\ HasEvent(p, "sharePage")
        \/ b = "index" /\ RenderedAs(p, "index.html", "text/html") }
\* the first branch, in the order of the claim, whose test the path q passes
FirstBranch(q, gen) ==
    CASE q = Sl \o wSwJs -> "sw"
      [] q # Sl \o wSwJs /\ matchURL(q, Sl \o wStatic) -> "static"
      [] ~matchURL(q, Sl \o wStatic) /\ matchURL(q, Sl \o wApi) -> "api"
      [] ~matchURL(q, Sl \o wStatic) /\ ~matchURL(q, Sl \o wApi) /\ gen
            /\ HasPrefix(q, Sl \o wPreview) -> "preview"
      [] q # Sl \o wSwJs /\ ~matchURL(q, Sl \o wStatic) /\ ~matchURL(q, Sl \o wApi)
            /\ ~(gen /\ HasPrefix(q, Sl \o wPreview))
            /\ HasPrefix(q, Sl \o wShare \o Sl) -> "share"
      [] OTHER -> "index"
\* the hardening headers the response carries
Hardening(p) ==
    { h \in resp[p].headers : h[1] \in {"x-frame-options", "x-content-type", "x-xss-protection"} }

(* C19: a request that passes the base-path check is handled by exactly one
   top-level branch, the first in this order whose test its path passes:
   exactly /sw.js, prefix /static, prefix /api, prefix /preview (only with a
   generator configured), prefix /share/, the default.  With no generator
   configured Preview is never invoked and a /preview path takes the default
   branch, which sets the three hardening headers and renders index.html as
   text/html; no other branch sets the hardening headers. *)
C19_OneBranch ==
    \A p \in Procs :
        /\ HasEvent(p, "Preview") => staticGen
        /\ Handled(p) =>
              /\ BranchesTaken(p) = {FirstBranch(PathBelow(p), staticGen)}
              /\ ~staticGen /\ HasPrefix(PathBelow(p), Sl \o wPreview) =>
                    BranchesTaken(p) = {"index"}
              /\ BranchesTaken(p) = {"index"} =>
                    /\ Done(p)
                    /\ Cardinality(Hardening(p)) = 3
                    /\ Len(calls[p]) = 1
              /\ BranchesTaken(p) # {"index"} => Hardening(p) = {}

\* with no generator a /preview path was answered with the UI shell and the
\* hardening headers
C19_Witness ==
    \E p \in Procs :
        /\ Handled(p)
        /\ ~staticGen
        /\ HasPrefix(PathBelow(p), Sl \o wPreview)
        /\ RenderedAs(p, "index.html", "text/html")
        /\ RenderOutcome(p) = "ok"
        /\ Cardinality(Hardening(p)) = 3
        /\ resp[p].body = <<"index.html">>

---------------------------------------------------------------------------
(* The share-record store. *)

\* request p holds a record it looked up, whose flag is set and whose
\* timestamp is in the past, and with this step deletes it and ends
ExpiryStep(p) ==
    /\ pc[p] = "found"
    /\ pc'[p] = "done"
    /\ \E i \in EventsOf(p, {"One"}) :
          calls[p][i].arg = ctx[p].s.Hash /\ calls[p][i].ret = "nil"
    /\ ctx[p].s.Expires
    /\ ctx[p].s.ExpireDate < now
    /\ db[ctx[p].s.Hash] # NoRecord
    /\ db' = [db EXCEPT ![ctx[p].s.Hash] = NoRecord]
\* the request's lookup failed with an error other than not-found
LookupFailed(p) ==
    \E i \in EventsOf(p, {"One"}) : calls[p][i].ret \notin {"nil", "ErrNotFound"}
\* such a request ended with 500 and the error right after the lookup
FailedLookupResult(p) ==
    /\ Done(p)
    /\ Len(calls[p]) = 2
    /\ resp[p] = Returned(NoResponse, StatusInternalServerError, calls[p][2].ret)
\* the request takes a step that ends it
Ends(p) == pc[p] # "done" /\ pc'[p] = "done"

(* C20: the store of share records changes only on the lazy-expiry path: a
   step removes a record only when it is the step of a sharePage request that
   looked up the record's hash and found its flag set and its timestamp in
   the past, and it removes that record only.  A request for an unknown hash,
   for a live record, one whose lookup fails with another error (which ends
   with 500 without deleting, stat-ing or rendering), and a request routed
   to /sw.js, /static or the default branch leave the store as it was. *)
C20_StoreFrame ==
    [][ /\ db' # db => \E p \in Procs : ExpiryStep(p)
        /\ \A p \in Procs :
              /\ LookupFailed(p)' => FailedLookupResult(p)' /\ (Ends(p) => db' = db)
              /\ Ends(p) /\ TookNotFound(p)' => db' = db
              /\ Ends(p) /\ Served(p)' => db' = db
              /\ Ends(p) /\ BranchesTaken(p)' \cap {"sw", "static", "index"} # {} => db' = db
      ]_vars

\* an expired record was deleted by the request that found it, and the other
\* record is still there
C20_Witness ==
    \E p \in Procs :
        /\ Done(p)
        /\ TookExpiry(p)
        /\ DeleteReturned(p) = "nil"
        /\ ShareHash(p) = h1
        /\ db[h1] = NoRecord
        /\ db[h2] # NoRecord

===========================================================================
